---- MODULE Spec2Model ----
(***************************************************************************)
(* Model of a3ak/circuitbreaker.                                            *)
(*                                                                          *)
(* Spec: one circuitBreaker value (src/circuitbreaker_core.go, the          *)
(* manager-era implementation at lines 198-392) driven by concurrent        *)
(* goroutines that call allow(), success() and failure() while wall-clock   *)
(* time advances.                                                           *)
(*                                                                          *)
(* ManagerSpec, TimedManagerSpec: one CBManager (src/circuitbreaker.go)     *)
(* whose methods are called by concurrent goroutines; its breakers are      *)
(* circuitBreaker values run by the same success(), failure() and allow()   *)
(* bodies.                                                                  *)
(*                                                                          *)
(* ConstructSpec: one goroutine calls new() with arbitrary arguments and    *)
(* then allow(), success() and failure() on the breaker it got.             *)
(*                                                                          *)
(* CycleSpec: one goroutine calls allow(), success() and failure() for ever *)
(* while time passes for ever, under fairness.                              *)
(*                                                                          *)
(* Time is counted in ticks; one tick stands for time.Second.               *)
(***************************************************************************)
EXTENDS Integers, FiniteSets, Sequences, TLC

(***************************************************************************)
(* Bounds of the model.                                                     *)
(***************************************************************************)
NumThreads == 2
MaxTime == 1
MaxThreshold == 2
MaxTimeout == 1

Threads == 1..NumThreads

(***************************************************************************)
(* type State uint8 and its constants (iota).                               *)
(***************************************************************************)
stateClosed == 0
stateOpen == 1
stateHalfOpen == 2
notConfigured == 3

(***************************************************************************)
(* Defaults applied by new().                                               *)
(***************************************************************************)
DefaultSuccessThreshold == 3
DefaultRecoveryTimeout == 30
DefaultFailureThreshold == 5
DefaultHalfOpenPrc == 20
MaxHalfOpenPrc == 100

(***************************************************************************)
(* time.Time: the zero value of lastFailureTime lies far in the past, so    *)
(* time.Since of it exceeds every timeout of the model.                     *)
(***************************************************************************)
ZeroTime == -1
MaxDuration == 1000

Since(t, clock) == IF t = ZeroTime THEN MaxDuration ELSE clock - t

(***************************************************************************)
(* The breaker is Open and its recovery timeout has elapsed.                *)
(***************************************************************************)
Due(c, clock) ==
    c.state = stateOpen /\ Since(c.lastFailureTime, clock) >= c.recoveryTimeout

(***************************************************************************)
(* CircuitBreakerConf values handed to new().  A sampling rate of 50 lets   *)
(* every probe be permitted or denied.                                      *)
(***************************************************************************)
RawHalfOpenPrcs == {50}

RawConfigs ==
    [FailureThreshold : 1..MaxThreshold,
     RecoveryTimeout  : 1..MaxTimeout,
     SuccessThreshold : 1..MaxThreshold,
     HalfOpenPrc      : RawHalfOpenPrcs]

Nil == [nil |-> TRUE]

(***************************************************************************)
(* Variants of new(): a sampling rate above 100 kept as given; an empty     *)
(* name accepted.                                                           *)
(***************************************************************************)
new_noUpperClamp(name, config) ==
    IF name = ""
    THEN [cb |-> Nil, err |-> TRUE]
    ELSE LET st == IF config.SuccessThreshold <= 0
                   THEN DefaultSuccessThreshold ELSE config.SuccessThreshold
             rt == IF config.RecoveryTimeout <= 0
                   THEN DefaultRecoveryTimeout ELSE config.RecoveryTimeout
             ft == IF config.FailureThreshold <= 0
                   THEN DefaultFailureThreshold ELSE config.FailureThreshold
             hp == IF config.HalfOpenPrc <= 0 THEN DefaultHalfOpenPrc
                   ELSE config.HalfOpenPrc
         IN [cb |-> [state            |-> stateClosed,
                     failureCount     |-> 0,
                     failureThreshold |-> ft,
                     recoveryTimeout  |-> rt,
                     lastFailureTime  |-> ZeroTime,
                     successCount     |-> 0,
                     successThreshold |-> st,
                     name             |-> name,
                     halfOpenPrc      |-> hp,
                     transaction      |-> 0],
             err |-> FALSE]

new_acceptsEmptyName(name, config) ==
    LET st == IF config.SuccessThreshold <= 0
              THEN DefaultSuccessThreshold ELSE config.SuccessThreshold
        rt == IF config.RecoveryTimeout <= 0
              THEN DefaultRecoveryTimeout ELSE config.RecoveryTimeout
        ft == IF config.FailureThreshold <= 0
              THEN DefaultFailureThreshold ELSE config.FailureThreshold
        hp == IF config.HalfOpenPrc <= 0 THEN DefaultHalfOpenPrc
              ELSE IF config.HalfOpenPrc > MaxHalfOpenPrc THEN MaxHalfOpenPrc
              ELSE config.HalfOpenPrc
    IN [cb |-> [state            |-> stateClosed,
                failureCount     |-> 0,
                failureThreshold |-> ft,
                recoveryTimeout  |-> rt,
                lastFailureTime  |-> ZeroTime,
                successCount     |-> 0,
                successThreshold |-> st,
                name             |-> name,
                halfOpenPrc      |-> hp,
                transaction      |-> 0],
        err |-> FALSE]

(***************************************************************************)
(* new(name, config): the breaker, or the error for an empty name.          *)
(***************************************************************************)
new(name, config) ==
    IF name = ""
    THEN [cb |-> Nil, err |-> TRUE]
    ELSE LET st == IF config.SuccessThreshold <= 0
                   THEN DefaultSuccessThreshold ELSE config.SuccessThreshold
             rt == IF config.RecoveryTimeout <= 0
                   THEN DefaultRecoveryTimeout ELSE config.RecoveryTimeout
             ft == IF config.FailureThreshold <= 0
                   THEN DefaultFailureThreshold ELSE config.FailureThreshold
             hp == IF config.HalfOpenPrc <= 0 THEN DefaultHalfOpenPrc
                   ELSE IF config.HalfOpenPrc > MaxHalfOpenPrc THEN MaxHalfOpenPrc
                   ELSE config.HalfOpenPrc
         IN [cb |-> [state            |-> stateClosed,
                     failureCount     |-> 0,
                     failureThreshold |-> ft,
                     recoveryTimeout  |-> rt,
                     lastFailureTime  |-> ZeroTime,
                     successCount     |-> 0,
                     successThreshold |-> st,
                     name             |-> name,
                     halfOpenPrc      |-> hp,
                     transaction      |-> 0],
             err |-> FALSE]

(***************************************************************************)
(* Variants of the body of success(): the threshold compared with > instead *)
(* of >=; the decrement without its floor.                                  *)
(***************************************************************************)
successLocked_strict(c) ==
    IF c.state = stateClosed
    THEN IF c.failureCount > 0
         THEN [c EXCEPT !.failureCount = @ - 1]
         ELSE c
    ELSE IF c.state = stateHalfOpen
    THEN IF c.successCount + 1 > c.successThreshold
         THEN [c EXCEPT !.state = stateClosed,
                        !.failureCount = 0,
                        !.successCount = 0,
                        !.transaction = @ + 1]
         ELSE [c EXCEPT !.successCount = @ + 1]
    ELSE c

successLocked_noFloor(c) ==
    IF c.state = stateClosed
    THEN [c EXCEPT !.failureCount = @ - 1]
    ELSE IF c.state = stateHalfOpen
    THEN IF c.successCount + 1 >= c.successThreshold
         THEN [c EXCEPT !.state = stateClosed,
                        !.failureCount = 0,
                        !.successCount = 0,
                        !.transaction = @ + 1]
         ELSE [c EXCEPT !.successCount = @ + 1]
    ELSE c

(***************************************************************************)
(* Two more variants of the body of success(): a success reported while     *)
(* Open closes the breaker; the floor of the decrement tested with >=       *)
(* instead of >.                                                            *)
(***************************************************************************)
successLocked_closesOpen(c) ==
    IF c.state = stateClosed
    THEN IF c.failureCount > 0
         THEN [c EXCEPT !.failureCount = @ - 1]
         ELSE c
    ELSE IF c.successCount + 1 >= c.successThreshold
    THEN [c EXCEPT !.state = stateClosed,
                   !.failureCount = 0,
                   !.successCount = 0,
                   !.transaction = @ + 1]
    ELSE [c EXCEPT !.successCount = @ + 1]

successLocked_floorOffByOne(c) ==
    IF c.state = stateClosed
    THEN IF c.failureCount >= 0
         THEN [c EXCEPT !.failureCount = @ - 1]
         ELSE c
    ELSE IF c.state = stateHalfOpen
    THEN IF c.successCount + 1 >= c.successThreshold
         THEN [c EXCEPT !.state = stateClosed,
                        !.failureCount = 0,
                        !.successCount = 0,
                        !.transaction = @ + 1]
         ELSE [c EXCEPT !.successCount = @ + 1]
    ELSE c

(***************************************************************************)
(* One more variant of the body of success(): a success while Closed        *)
(* forgets every counted failure.                                           *)
(***************************************************************************)
successLocked_resets(c) ==
    IF c.state = stateClosed
    THEN [c EXCEPT !.failureCount = 0]
    ELSE IF c.state = stateHalfOpen
    THEN IF c.successCount + 1 >= c.successThreshold
         THEN [c EXCEPT !.state = stateClosed,
                        !.failureCount = 0,
                        !.successCount = 0,
                        !.transaction = @ + 1]
         ELSE [c EXCEPT !.successCount = @ + 1]
    ELSE c

(***************************************************************************)
(* Two more variants of the body of success(): the closing success leaves   *)
(* successCount at the threshold; the closing success is not counted in     *)
(* transaction.                                                             *)
(***************************************************************************)
successLocked_keepsCountOnClose(c) ==
    IF c.state = stateClosed
    THEN IF c.failureCount > 0
         THEN [c EXCEPT !.failureCount = @ - 1]
         ELSE c
    ELSE IF c.state = stateHalfOpen
    THEN IF c.successCount + 1 >= c.successThreshold
         THEN [c EXCEPT !.state = stateClosed,
                        !.failureCount = 0,
                        !.successCount = @ + 1,
                        !.transaction = @ + 1]
         ELSE [c EXCEPT !.successCount = @ + 1]
    ELSE c

successLocked_uncountedClose(c) ==
    IF c.state = stateClosed
    THEN IF c.failureCount > 0
         THEN [c EXCEPT !.failureCount = @ - 1]
         ELSE c
    ELSE IF c.state = stateHalfOpen
    THEN IF c.successCount + 1 >= c.successThreshold
         THEN [c EXCEPT !.state = stateClosed,
                        !.failureCount = 0,
                        !.successCount = 0]
         ELSE [c EXCEPT !.successCount = @ + 1]
    ELSE c

(***************************************************************************)
(* The body of success(), run under the exclusive lock.                     *)
(***************************************************************************)
successLocked(c) ==
    IF c.state = stateClosed
    THEN IF c.failureCount > 0
         THEN [c EXCEPT !.failureCount = @ - 1]
         ELSE c
    ELSE IF c.state = stateHalfOpen
    THEN IF c.successCount + 1 >= c.successThreshold
         THEN [c EXCEPT !.state = stateClosed,
                        !.failureCount = 0,
                        !.successCount = 0,
                        !.transaction = @ + 1]
         ELSE [c EXCEPT !.successCount = @ + 1]
    ELSE c

(***************************************************************************)
(* Variants of the body of failure(): the threshold compared with > instead *)
(* of >=; a failed probe that keeps successCount; a failure while Open that *)
(* restarts the recovery timer.                                             *)
(***************************************************************************)
failureLocked_strict(c, clock) ==
    IF c.state = stateClosed
    THEN IF c.failureCount + 1 > c.failureThreshold
         THEN [c EXCEPT !.failureCount = @ + 1,
                        !.state = stateOpen,
                        !.lastFailureTime = clock,
                        !.transaction = @ + 1]
         ELSE [c EXCEPT !.failureCount = @ + 1]
    ELSE IF c.state = stateHalfOpen
    THEN [c EXCEPT !.state = stateOpen,
                   !.lastFailureTime = clock,
                   !.successCount = 0]
    ELSE c

failureLocked_keepsSuccessCount(c, clock) ==
    IF c.state = stateClosed
    THEN IF c.failureCount + 1 >= c.failureThreshold
         THEN [c EXCEPT !.failureCount = @ + 1,
                        !.state = stateOpen,
                        !.lastFailureTime = clock,
                        !.transaction = @ + 1]
         ELSE [c EXCEPT !.failureCount = @ + 1]
    ELSE IF c.state = stateHalfOpen
    THEN [c EXCEPT !.state = stateOpen,
                   !.lastFailureTime = clock]
    ELSE c

failureLocked_restartsTimer(c, clock) ==
    IF c.state = stateClosed
    THEN IF c.failureCount + 1 >= c.failureThreshold
         THEN [c EXCEPT !.failureCount = @ + 1,
                        !.state = stateOpen,
                        !.lastFailureTime = clock,
                        !.transaction = @ + 1]
         ELSE [c EXCEPT !.failureCount = @ + 1]
    ELSE IF c.state = stateHalfOpen
    THEN [c EXCEPT !.state = stateOpen,
                   !.lastFailureTime = clock,
                   !.successCount = 0]
    ELSE [c EXCEPT !.lastFailureTime = clock]

(***************************************************************************)
(* One more variant of the body of failure(): a failed probe is counted in  *)
(* transaction.                                                             *)
(***************************************************************************)
failureLocked_countsReopen(c, clock) ==
    IF c.state = stateClosed
    THEN IF c.failureCount + 1 >= c.failureThreshold
         THEN [c EXCEPT !.failureCount = @ + 1,
                        !.state = stateOpen,
                        !.lastFailureTime = clock,
                        !.transaction = @ + 1]
         ELSE [c EXCEPT !.failureCount = @ + 1]
    ELSE IF c.state = stateHalfOpen
    THEN [c EXCEPT !.state = stateOpen,
                   !.lastFailureTime = clock,
                   !.successCount = 0,
                   !.transaction = @ + 1]
    ELSE c

(***************************************************************************)
(* One more variant of the body of failure(): the tripping failure clears   *)
(* failureCount.                                                            *)
(***************************************************************************)
failureLocked_clearsOnTrip(c, clock) ==
    IF c.state = stateClosed
    THEN IF c.failureCount + 1 >= c.failureThreshold
         THEN [c EXCEPT !.failureCount = 0,
                        !.state = stateOpen,
                        !.lastFailureTime = clock,
                        !.transaction = @ + 1]
         ELSE [c EXCEPT !.failureCount = @ + 1]
    ELSE IF c.state = stateHalfOpen
    THEN [c EXCEPT !.state = stateOpen,
                   !.lastFailureTime = clock,
                   !.successCount = 0]
    ELSE c

(***************************************************************************)
(* The body of failure(), run under the exclusive lock; clock is time.Now().*)
(***************************************************************************)
failureLocked(c, clock) ==
    IF c.state = stateClosed
    THEN IF c.failureCount + 1 >= c.failureThreshold
         THEN [c EXCEPT !.failureCount = @ + 1,
                        !.state = stateOpen,
                        !.lastFailureTime = clock,
                        !.transaction = @ + 1]
         ELSE [c EXCEPT !.failureCount = @ + 1]
    ELSE IF c.state = stateHalfOpen
    THEN [c EXCEPT !.state = stateOpen,
                   !.lastFailureTime = clock,
                   !.successCount = 0]
    ELSE c

(***************************************************************************)
(* allow(): the timeout test on the values copied under the shared lock,    *)
(* the re-validation under the exclusive lock, and the sampling.  Each of   *)
(* the first three comes with a variant: the timeout compared with >        *)
(* instead of >=; a re-validation that forgets the state; a transition that *)
(* is counted in transaction.                                               *)
(***************************************************************************)
allowTimeoutElapsed_strict(lastFailureTime, recoveryTimeout, clock) ==
    Since(lastFailureTime, clock) > recoveryTimeout

allowTimeoutElapsed(lastFailureTime, recoveryTimeout, clock) ==
    Since(lastFailureTime, clock) >= recoveryTimeout

allowRevalidate_timeOnly(c, clock) ==
    Since(c.lastFailureTime, clock) >= c.recoveryTimeout

(* A re-validation that never succeeds. *)
allowRevalidate_never(c, clock) == FALSE

allowRevalidate(c, clock) ==
    c.state = stateOpen /\ Since(c.lastFailureTime, clock) >= c.recoveryTimeout

allowLockedWrite_counts(c, clock) ==
    IF allowRevalidate(c, clock)
    THEN [c EXCEPT !.state = stateHalfOpen, !.transaction = @ + 1]
    ELSE c

allowLockedWrite(c, clock) ==
    IF allowRevalidate(c, clock)
    THEN [c EXCEPT !.state = stateHalfOpen]
    ELSE c

IntN(n) == 0..(n - 1)

(* The sampling with <= instead of <. *)
allowSample_inclusive(draw, halfOpenPrc) == draw <= halfOpenPrc

allowSample(draw, halfOpenPrc) == draw < halfOpenPrc


(***************************************************************************)
(* State.                                                                   *)
(*   cb    the circuitBreaker struct (all fields but mu)                    *)
(*   now   the wall clock                                                   *)
(*   pc    each goroutine's position: "idle" between calls, and inside      *)
(*         allow() "allow_switch" (after RUnlock) or "allow_lock" (about to *)
(*         call cb.mu.Lock)                                                 *)
(*   snap  allow()'s local copies state, lastFailureTime, recoveryTimeout,  *)
(*         halfOpenPrc                                                      *)
(* cb.mu is modelled by atomicity: every section of code that runs between  *)
(* RLock and RUnlock, or between Lock and Unlock, is one step, so no two    *)
(* sections overlap and no step sees a half-done section.  success() and    *)
(* failure() hold the exclusive lock from their first statement to their    *)
(* return and are one step each.                                            *)
(*                                                                          *)
(* History, written by no code and read by none:                            *)
(*   call     per running allow():                                          *)
(*            next - the breaker was Open with the timeout elapsed when the *)
(*              call began and no other goroutine has taken a step since;   *)
(*            early - the breaker was Open with the timeout not elapsed     *)
(*              when the call read it under the shared lock;                *)
(*            sameStay - the breaker was Open when the call read it and has *)
(*              not re-entered Open since                                   *)
(*   ev       the call that returned in the last step (op = "none" when     *)
(*            none did): the struct before the step (pre), the clock, and   *)
(*            for allow() the result (permitted, observed), the state the   *)
(*            call copied (read), whether it took the exclusive lock        *)
(*            (locked), the stored state when it last held the lock         *)
(*            (heldState) and whether the breaker was then Open with the    *)
(*            timeout not elapsed (heldEarly), its call record, and         *)
(*            hoWrites, succRun or failRun before the step (preRun)         *)
(*   failRun  number of failure() calls completed, capped at the failure    *)
(*            threshold, while nothing but failure() has been called; -1    *)
(*            afterwards                                                    *)
(*   succRun  number of success() calls completed since the breaker entered *)
(*            HalfOpen                                                      *)
(*   hoWrites number of Open->HalfOpen writes since the breaker last        *)
(*            entered Open                                                  *)
(*   streak   number of failure() calls made on the Closed breaker since    *)
(*            the last success() and since it last became Closed; 0 while   *)
(*            it is not Closed                                              *)
(*   made     the call of new() the breaker comes from: its arguments, and  *)
(*            whether it has returned (done) and returned an error (err)    *)
(***************************************************************************)
VARIABLES cb, now, pc, snap, call, ev, failRun, succRun, hoWrites, streak, made

(***************************************************************************)
(* State of a CBManager (src/circuitbreaker.go).                            *)
(*   breakers  the registry map: a function from the registered names to    *)
(*             breaker references                                           *)
(*   heap      the circuitBreaker structs that are still referenced, by     *)
(*             reference                                                    *)
(*   allocs    number of structs allocated so far (the next reference is    *)
(*             allocs + 1)                                                  *)
(*   mpc       each goroutine's position in a manager method                *)
(*   frame     each goroutine's arguments and locals                        *)
(*   inits     number of InitCircuitBreakers calls begun                    *)
(* History:                                                                 *)
(*   frame[t].before  the registry when t's InitCircuitBreakers took m.mu   *)
(*   frame[t].known   the name t looks up was registered when t held m.mu   *)
(*   frame[t].torn    when t held m.mu for reading, the registry was        *)
(*             neither the one before nor the one after a running           *)
(*             InitCircuitBreakers call                                     *)
(*   mev       the manager call that returned in the last step (op = "none" *)
(*             when none did): its arguments and results, known and torn,   *)
(*             whether it had found a breaker (found), and for              *)
(*             GetCircuitBreakerState the state curState() read (read) and  *)
(*             whether the breaker was then Open with its timeout elapsed   *)
(*             (due)                                                        *)
(* m.mu and each breaker's mu are modelled by the positions: a goroutine    *)
(* holds a lock exactly while it stands between the Lock/RLock and the      *)
(* matching deferred unlock, and a step that locks is enabled only when the *)
(* lock can be taken.                                                       *)
(***************************************************************************)
VARIABLES breakers, heap, allocs, mpc, frame, inits, mev

bvars == <<cb, pc, snap, call, ev, failRun, succRun, hoWrites, streak, made>>

mvars == <<breakers, heap, allocs, mpc, frame, inits, mev>>

vars == <<cb, now, pc, snap, call, ev, failRun, succRun, hoWrites, streak,
          made, breakers, heap, allocs, mpc, frame, inits, mev>>

NoSnap == [state |-> stateClosed, lastFailureTime |-> ZeroTime,
           recoveryTimeout |-> 0, halfOpenPrc |-> 0]

NoCall == [next |-> FALSE, early |-> FALSE, sameStay |-> FALSE]

NoEv == [op |-> "none", pre |-> Nil, permitted |-> FALSE,
         observed |-> stateClosed, read |-> stateClosed, locked |-> FALSE,
         heldState |-> stateClosed, heldEarly |-> FALSE,
         next |-> FALSE, sameStay |-> FALSE, preRun |-> 0, clock |-> 0]

ServerName == "srv"

Made(name, config) ==
    [name |-> name, config |-> config, done |-> TRUE, err |-> new(name, config).err]

(***************************************************************************)
(* NewCBManager(): an empty registry; no goroutine is inside a method.      *)
(***************************************************************************)
EmptyMap == [n \in {} |-> 0]

NilRef == 0

NoFrame == [op |-> "none", name |-> "", servers |-> <<>>, i |-> 0,
            cbInitErr |-> <<>>, ptr |-> NilRef, snap |-> NoSnap,
            stats |-> EmptyMap, todo |-> {}, before |-> EmptyMap,
            known |-> FALSE, torn |-> FALSE]

NoMev == [op |-> "none", servers |-> <<>>, cbInitErr |-> <<>>,
          found |-> FALSE, known |-> FALSE, torn |-> FALSE,
          permitted |-> FALSE, observed |-> stateClosed,
          read |-> stateClosed, due |-> FALSE, text |-> "",
          stats |-> EmptyMap]

NewCBManager ==
    /\ breakers = EmptyMap
    /\ heap = EmptyMap
    /\ allocs = 0
    /\ mpc = [t \in Threads |-> "idle"]
    /\ frame = [t \in Threads |-> NoFrame]
    /\ inits = 0
    /\ mev = NoMev

Init ==
    /\ NewCBManager
    /\ \E config \in RawConfigs :
          /\ cb = new(ServerName, config).cb
          /\ made = Made(ServerName, config)
    /\ now = 0
    /\ pc = [t \in Threads |-> "idle"]
    /\ snap = [t \in Threads |-> NoSnap]
    /\ call = [t \in Threads |-> NoCall]
    /\ ev = NoEv
    /\ failRun = 0
    /\ succRun = 0
    /\ hoWrites = 0
    /\ streak = 0

(***************************************************************************)
(* History bookkeeping: a step of goroutine t ends the solitude of every    *)
(* other running call; an entry into Open ends every call's stay.           *)
(***************************************************************************)
Disturb(c, t) == [u \in Threads |-> IF u = t THEN c[u] ELSE [c[u] EXCEPT !.next = FALSE]]

EndStay(c) == [u \in Threads |-> [c[u] EXCEPT !.sameStay = FALSE]]

EntersOpen(c, d) == d.state = stateOpen /\ c.state # stateOpen

(***************************************************************************)
(* allow().                                                                 *)
(***************************************************************************)
AllowReturn(t, permitted, observed, locked, before, after) ==
    /\ pc' = [pc EXCEPT ![t] = "idle"]
    /\ snap' = [snap EXCEPT ![t] = NoSnap]
    /\ call' = [Disturb(call, t) EXCEPT ![t] = NoCall]
    /\ ev' = [op |-> "allow", pre |-> before,
              permitted |-> permitted, observed |-> observed,
              read |-> snap[t].state, locked |-> locked,
              heldState |-> IF locked THEN after.state ELSE snap[t].state,
              heldEarly |-> IF locked
                            THEN after.state = stateOpen /\ ~ Due(after, now)
                            ELSE call[t].early,
              next |-> call[t].next,
              sameStay |-> call[t].sameStay, preRun |-> hoWrites,
              clock |-> now]

(* cb.mu.RLock(); the four copies; cb.mu.RUnlock() *)
AllowRead(t) ==
    /\ pc[t] = "idle"
    /\ snap' = [snap EXCEPT ![t] =
                  [state |-> cb.state,
                   lastFailureTime |-> cb.lastFailureTime,
                   recoveryTimeout |-> cb.recoveryTimeout,
                   halfOpenPrc |-> cb.halfOpenPrc]]
    /\ pc' = [pc EXCEPT ![t] = "allow_switch"]
    /\ call' = [Disturb(call, t) EXCEPT ![t] =
                  [next |-> Due(cb, now),
                   early |-> cb.state = stateOpen /\ ~ Due(cb, now),
                   sameStay |-> cb.state = stateOpen]]
    /\ ev' = NoEv
    /\ failRun' = -1
    /\ UNCHANGED <<cb, now, succRun, hoWrites, streak, made>>
    /\ UNCHANGED mvars

(* switch state, on the copies and the clock as it is now *)
AllowSwitch(t) ==
    /\ pc[t] = "allow_switch"
    /\ \/ /\ snap[t].state = stateClosed
          /\ AllowReturn(t, TRUE, snap[t].state, FALSE, cb, cb)
       \/ /\ snap[t].state = stateHalfOpen
          /\ \E permitted \in {allowSample(draw, snap[t].halfOpenPrc) : draw \in IntN(100)} :
                AllowReturn(t, permitted, snap[t].state, FALSE, cb, cb)
       \/ /\ snap[t].state = stateOpen
          /\ allowTimeoutElapsed(snap[t].lastFailureTime, snap[t].recoveryTimeout, now)
          /\ pc' = [pc EXCEPT ![t] = "allow_lock"]
          /\ call' = [Disturb(call, t) EXCEPT ![t].early = FALSE]
          /\ ev' = NoEv
          /\ UNCHANGED snap
       \/ /\ snap[t].state = stateOpen
          /\ ~ allowTimeoutElapsed(snap[t].lastFailureTime, snap[t].recoveryTimeout, now)
          /\ AllowReturn(t, FALSE, snap[t].state, FALSE, cb, cb)
       \/ /\ snap[t].state \notin {stateClosed, stateHalfOpen, stateOpen}
          /\ AllowReturn(t, FALSE, snap[t].state, FALSE, cb, cb)
    /\ UNCHANGED <<cb, now, failRun, succRun, hoWrites, streak, made>>
    /\ UNCHANGED mvars

(* cb.mu.Lock(); the re-validation and the write; the sampling; the return  *)
(* of the literal stateHalfOpen; the deferred cb.mu.Unlock()                *)
AllowLocked(t) ==
    /\ pc[t] = "allow_lock"
    /\ cb' = allowLockedWrite(cb, now)
    /\ hoWrites' = IF allowRevalidate(cb, now) THEN hoWrites + 1 ELSE hoWrites
    /\ succRun' = IF cb'.state = stateHalfOpen /\ cb.state # stateHalfOpen
                  THEN 0 ELSE succRun
    /\ \E permitted \in {allowSample(draw, snap[t].halfOpenPrc) : draw \in IntN(100)} :
          AllowReturn(t, permitted, stateHalfOpen, TRUE, cb, cb')
    /\ UNCHANGED <<now, failRun, streak, made>>
    /\ UNCHANGED mvars

allow(t) ==
    \/ AllowRead(t)
    \/ AllowSwitch(t)
    \/ AllowLocked(t)

(***************************************************************************)
(* success().                                                               *)
(***************************************************************************)
success(t) ==
    /\ pc[t] = "idle"
    /\ cb' = successLocked(cb)
    /\ call' = Disturb(call, t)
    /\ ev' = [NoEv EXCEPT !.op = "success", !.pre = cb,
                          !.preRun = succRun, !.clock = now]
    /\ succRun' = IF cb.state = stateHalfOpen /\ cb'.state = stateHalfOpen
                  THEN succRun + 1 ELSE 0
    /\ failRun' = -1
    /\ streak' = 0
    /\ UNCHANGED <<now, pc, snap, hoWrites, made>>
    /\ UNCHANGED mvars

(***************************************************************************)
(* failure().                                                               *)
(***************************************************************************)
failure(t) ==
    /\ pc[t] = "idle"
    /\ cb' = failureLocked(cb, now)
    /\ call' = IF EntersOpen(cb, cb')
               THEN EndStay(Disturb(call, t)) ELSE Disturb(call, t)
    /\ ev' = [NoEv EXCEPT !.op = "failure", !.pre = cb,
                          !.preRun = failRun, !.clock = now]
    /\ failRun' = IF failRun = -1 THEN -1
                  ELSE IF failRun < cb.failureThreshold THEN failRun + 1
                  ELSE failRun
    /\ hoWrites' = IF EntersOpen(cb, cb') THEN 0 ELSE hoWrites
    /\ succRun' = 0
    /\ streak' = IF cb.state = stateClosed /\ cb'.state = stateClosed
                 THEN streak + 1 ELSE 0
    /\ UNCHANGED <<now, pc, snap, made>>
    /\ UNCHANGED mvars

(***************************************************************************)
(* The passage of wall-clock time.                                          *)
(***************************************************************************)
Tick ==
    /\ now < MaxTime
    /\ now' = now + 1
    /\ ev' = NoEv
    /\ UNCHANGED <<cb, pc, snap, call, failRun, succRun, hoWrites, streak, made>>
    /\ UNCHANGED mvars

Next ==
    \/ \E t \in Threads : allow(t)
    \/ \E t \in Threads : success(t)
    \/ \E t \in Threads : failure(t)
    \/ Tick

Spec == Init /\ [][Next]_vars


(***************************************************************************)
(* ConstructSpec: one goroutine builds a breaker with new() from arbitrary  *)
(* arguments and then calls allow(), success() and failure() on it, as the  *)
(* tests of src/circuitbreaker_core_test.go do.                             *)
(***************************************************************************)
Tester == 1

CtorNames == {"", ServerName}

CtorHalfOpenPrcs == {-1, 0, 1, 50, 100, 101}

CtorConfigs ==
    [FailureThreshold : -1..MaxThreshold,
     RecoveryTimeout  : -1..MaxTimeout,
     SuccessThreshold : -1..MaxThreshold,
     HalfOpenPrc      : CtorHalfOpenPrcs]

ConstructInit ==
    /\ NewCBManager
    /\ cb = Nil
    /\ \E name \in CtorNames, config \in CtorConfigs :
          made = [name |-> name, config |-> config, done |-> FALSE, err |-> FALSE]
    /\ now = 0
    /\ pc = [t \in Threads |-> "idle"]
    /\ snap = [t \in Threads |-> NoSnap]
    /\ call = [t \in Threads |-> NoCall]
    /\ ev = NoEv
    /\ failRun = 0
    /\ succRun = 0
    /\ hoWrites = 0
    /\ streak = 0

(* cb, err := new(name, config) *)
Construct ==
    /\ ~ made.done
    /\ cb' = new(made.name, made.config).cb
    /\ made' = Made(made.name, made.config)
    /\ ev' = [NoEv EXCEPT !.op = "new"]
    /\ UNCHANGED <<now, pc, snap, call, failRun, succRun, hoWrites, streak>>
    /\ UNCHANGED mvars

Built == made.done /\ ~ made.err

ConstructNext ==
    \/ Construct
    \/ Built /\ allow(Tester)
    \/ Built /\ success(Tester)
    \/ Built /\ failure(Tester)
    \/ Built /\ Tick

ConstructSpec == ConstructInit /\ [][ConstructNext]_vars


(***************************************************************************)
(* CycleSpec: one goroutine calls allow(), success() and failure() on the   *)
(* breaker for ever while time passes for ever.  The behaviour of the code  *)
(* depends on the clock only through time.Since(lastFailureTime) >=         *)
(* recoveryTimeout and not at all on the value of transaction, so both are  *)
(* kept in a window: Rebase moves the origin of time one tick forward when  *)
(* the clock stands at MaxTime (a lastFailureTime that leaves the window is *)
(* at least MaxTime >= recoveryTimeout old and becomes ZeroTime), and takes *)
(* the two transitions of a full cycle off transaction.                     *)
(***************************************************************************)
CycleTransactions == 2

InWindow == cb.transaction < CycleTransactions

Rebase ==
    LET shift == IF now = MaxTime THEN 1 ELSE 0
        drop == IF cb.transaction >= 2 THEN 2 ELSE 0
        Back(x) == IF x - shift < 0 THEN ZeroTime ELSE x - shift
    IN /\ shift = 1 \/ drop = 2
       /\ now' = now - shift
       /\ cb' = [cb EXCEPT !.lastFailureTime = Back(@), !.transaction = @ - drop]
       /\ snap' = [t \in Threads |->
                     [snap[t] EXCEPT !.lastFailureTime = Back(@)]]
       /\ ev' = NoEv
       /\ UNCHANGED <<pc, call, failRun, succRun, hoWrites, streak, made>>
       /\ UNCHANGED mvars

CycleNext ==
    \/ allow(Tester)
    \/ InWindow /\ success(Tester)
    \/ InWindow /\ failure(Tester)
    \/ Tick
    \/ Rebase

(* Time keeps advancing; allow() keeps being called and every call returns; *)
(* a sampling that is made again and again permits again and again; a       *)
(* permitted call is reported as a success.                                 *)
CycleFairness ==
    /\ WF_vars(Tick \/ Rebase)
    /\ WF_vars(allow(Tester))
    /\ SF_vars(allow(Tester) /\ ev'.op = "allow" /\ ev'.permitted)
    /\ SF_vars(InWindow /\ success(Tester) /\ ev.op = "allow" /\ ev.permitted)

CycleSpec == Init /\ [][CycleNext]_vars /\ CycleFairness


(***************************************************************************)
(* The manager.                                                             *)
(***************************************************************************)
MaxInits == 2

(* Arguments of the calls: the server lists handed to InitCircuitBreakers,  *)
(* the one configuration they are built with, and the names looked up, of   *)
(* which "c" is never registered.                                           *)
ServerLists == {<<>>, <<"a", "", "b">>}

ManagerConf == [FailureThreshold |-> 1, RecoveryTimeout |-> 1,
                SuccessThreshold |-> 1, HalfOpenPrc |-> 50]

LookupNames == {"a", "c"}

(* m.mu and cb.mu, read off the positions. *)
RegistryWriters == {t \in Threads : mpc[t] = "init_loop"}

RegistryReaders == {t \in Threads : mpc[t] \in {"stats_loop", "stats_cb"}}

(* A variant in which allow() keeps its shared lock until it returns, so    *)
(* that it asks for the exclusive lock while it holds the shared one.       *)
BreakerReaders_allowKeepsRLock(ref) ==
    {t \in Threads : /\ mpc[t] \in {"stats_cb", "allow_switch", "allow_lock"}
                     /\ frame[t].ptr = ref}

BreakerReaders(ref) ==
    {t \in Threads : mpc[t] = "stats_cb" /\ frame[t].ptr = ref}

HoldsRegistryLock(t) == t \in RegistryWriters \cup RegistryReaders

HoldsBreakerLock(t) == mpc[t] = "stats_cb"

(* m.mu.Lock() can return *)
CanLock == RegistryWriters = {} /\ RegistryReaders = {}

(* A variant of m.mu.RLock() that does not wait for the writer. *)
CanRLock_ignoresWriter == TRUE

(* m.mu.RLock() can return *)
CanRLock == RegistryWriters = {}

(* cb.mu.Lock() can return; no goroutine stands between cb.mu.Lock and its  *)
(* unlock, so cb.mu.RLock() always can.                                     *)
CanLockBreaker(ref) == BreakerReaders(ref) = {}

(* The map and the structs it refers to. *)
MapPut(f, k, v) == [x \in DOMAIN f \cup {k} |-> IF x = k THEN v ELSE f[x]]

Registered == DOMAIN breakers

Manager == [breakers |-> breakers, heap |-> heap, allocs |-> allocs]

(* Structs that neither the registry nor a goroutine refers to are garbage. *)
Live(reg, fr) ==
    ({reg[n] : n \in DOMAIN reg} \cup {fr[t].ptr : t \in Threads}) \ {NilRef}

Collect(h, reg, fr) == [r \in DOMAIN h \cap Live(reg, fr) |-> h[r]]

(* A manager method returns: the goroutine is idle again. *)
ManagerReturn(t, event) ==
    /\ mpc' = [mpc EXCEPT ![t] = "idle"]
    /\ frame' = [frame EXCEPT ![t] = NoFrame]
    /\ mev' = event

(***************************************************************************)
(* InitCircuitBreakers(servers, cfg).                                       *)
(***************************************************************************)
(* A variant of the loop body that leaves the loop at the first error. *)
InitIteration_stopsAtError(m, servers, i, cbInitErr, cfg) ==
    LET srv == servers[i]
        r == new(srv, cfg)
    IN IF r.cb = Nil /\ r.err
       THEN [m |-> m, cbInitErr |-> Append(cbInitErr, r.err),
             i |-> Len(servers) + 1]
       ELSE [m |-> [breakers |-> MapPut(m.breakers, srv, m.allocs + 1),
                    heap |-> MapPut(m.heap, m.allocs + 1, r.cb),
                    allocs |-> m.allocs + 1],
             cbInitErr |-> cbInitErr, i |-> i + 1]

(* A variant of the loop body that keeps the breaker of a name that is      *)
(* already registered.                                                      *)
InitIteration_keepsExisting(m, servers, i, cbInitErr, cfg) ==
    LET srv == servers[i]
        r == new(srv, cfg)
    IN IF r.cb = Nil /\ r.err
       THEN [m |-> m, cbInitErr |-> Append(cbInitErr, r.err), i |-> i + 1]
       ELSE IF srv \in DOMAIN m.breakers
       THEN [m |-> m, cbInitErr |-> cbInitErr, i |-> i + 1]
       ELSE [m |-> [breakers |-> MapPut(m.breakers, srv, m.allocs + 1),
                    heap |-> MapPut(m.heap, m.allocs + 1, r.cb),
                    allocs |-> m.allocs + 1],
             cbInitErr |-> cbInitErr, i |-> i + 1]

(* One iteration of the loop over servers. *)
InitIteration(m, servers, i, cbInitErr, cfg) ==
    LET srv == servers[i]
        r == new(srv, cfg)
    IN IF r.cb = Nil /\ r.err
       THEN [m |-> m, cbInitErr |-> Append(cbInitErr, r.err), i |-> i + 1]
       ELSE [m |-> [breakers |-> MapPut(m.breakers, srv, m.allocs + 1),
                    heap |-> MapPut(m.heap, m.allocs + 1, r.cb),
                    allocs |-> m.allocs + 1],
             cbInitErr |-> cbInitErr, i |-> i + 1]

(* The registry an InitCircuitBreakers call leaves when it has run the     *)
(* iterations i, i + 1, ... of its loop on the manager m.                   *)
RECURSIVE InitRest(_, _, _, _)
InitRest(m, servers, i, cfg) ==
    IF i > Len(servers) THEN m.breakers
    ELSE LET r == InitIteration(m, servers, i, <<>>, cfg)
         IN InitRest(r.m, servers, r.i, cfg)

(* History: the registry is neither the one a running InitCircuitBreakers   *)
(* call found nor the one it leaves.                                        *)
Torn ==
    \E u \in RegistryWriters :
       /\ breakers # frame[u].before
       /\ breakers # InitRest(Manager, frame[u].servers, frame[u].i, ManagerConf)

(* m.mu.Lock() *)
InitLock(t) ==
    /\ mpc[t] = "idle"
    /\ inits < MaxInits
    /\ CanLock
    /\ \E servers \in ServerLists :
          frame' = [frame EXCEPT ![t] =
                      [NoFrame EXCEPT !.op = "init", !.servers = servers,
                                      !.i = 1, !.before = breakers]]
    /\ mpc' = [mpc EXCEPT ![t] = "init_loop"]
    /\ inits' = inits + 1
    /\ mev' = NoMev
    /\ UNCHANGED <<breakers, heap, allocs, now>>
    /\ UNCHANGED bvars

InitStep(t) ==
    /\ mpc[t] = "init_loop"
    /\ frame[t].i <= Len(frame[t].servers)
    /\ LET r == InitIteration(Manager, frame[t].servers, frame[t].i,
                              frame[t].cbInitErr, ManagerConf)
       IN /\ breakers' = r.m.breakers
          /\ allocs' = r.m.allocs
          /\ frame' = [frame EXCEPT ![t].i = r.i, ![t].cbInitErr = r.cbInitErr]
          /\ heap' = Collect(r.m.heap, breakers', frame')
    /\ mev' = NoMev
    /\ UNCHANGED <<mpc, inits, now>>
    /\ UNCHANGED bvars

(* return cbInitErr; the deferred m.mu.Unlock() *)
InitReturn(t) ==
    /\ mpc[t] = "init_loop"
    /\ frame[t].i > Len(frame[t].servers)
    /\ ManagerReturn(t, [NoMev EXCEPT !.op = "init",
                                      !.servers = frame[t].servers,
                                      !.cbInitErr = frame[t].cbInitErr])
    /\ heap' = Collect(heap, breakers, frame')
    /\ UNCHANGED <<breakers, allocs, inits, now>>
    /\ UNCHANGED bvars

InitCircuitBreakers(t) ==
    \/ InitLock(t)
    \/ InitStep(t)
    \/ InitReturn(t)

(***************************************************************************)
(* GetCircuitBreaker(serverURL).                                            *)
(***************************************************************************)
(* A variant that registers a breaker for a name it does not find. *)
getCircuitBreaker_registers(m, serverURL) ==
    IF serverURL \in DOMAIN m.breakers
    THEN [m |-> m, cb |-> m.breakers[serverURL]]
    ELSE [m |-> [breakers |-> MapPut(m.breakers, serverURL, m.allocs + 1),
                 heap |-> MapPut(m.heap, m.allocs + 1,
                                 new(serverURL, ManagerConf).cb),
                 allocs |-> m.allocs + 1],
          cb |-> m.allocs + 1]

(* return m.breakers[serverURL]: the reference, or nil for a missing key;   *)
(* the manager is left as it was.                                           *)
getCircuitBreaker(m, serverURL) ==
    [m |-> m,
     cb |-> IF serverURL \in DOMAIN m.breakers
            THEN m.breakers[serverURL] ELSE NilRef]

(* m.mu.RLock(); the lookup; the deferred m.mu.RUnlock(): the first         *)
(* statement of AllowRequest, ReportSuccess, ReportFailure and              *)
(* GetCircuitBreakerState.                                                  *)
Resolve(t, op) ==
    /\ mpc[t] = "idle"
    /\ CanRLock
    /\ \E serverURL \in LookupNames :
          LET r == getCircuitBreaker(Manager, serverURL)
          IN /\ breakers' = r.m.breakers
             /\ allocs' = r.m.allocs
             /\ frame' = [frame EXCEPT ![t] =
                            [NoFrame EXCEPT !.op = op, !.name = serverURL,
                                            !.ptr = r.cb,
                                            !.known = serverURL \in Registered,
                                            !.torn = Torn]]
             /\ heap' = Collect(r.m.heap, breakers', frame')
    /\ mpc' = [mpc EXCEPT ![t] = "got_cb"]
    /\ mev' = NoMev
    /\ UNCHANGED <<inits, now>>
    /\ UNCHANGED bvars

(* A call of GetCircuitBreaker itself: one step. *)
GetCircuitBreaker(t) ==
    /\ mpc[t] = "idle"
    /\ CanRLock
    /\ \E serverURL \in LookupNames :
          LET r == getCircuitBreaker(Manager, serverURL)
          IN /\ breakers' = r.m.breakers
             /\ allocs' = r.m.allocs
             /\ mev' = [NoMev EXCEPT !.op = "get",
                                     !.found = r.cb # NilRef,
                                     !.known = serverURL \in Registered,
                                     !.torn = Torn]
             /\ heap' = Collect(r.m.heap, breakers', frame)
    /\ UNCHANGED <<mpc, frame, inits, now>>
    /\ UNCHANGED bvars

(***************************************************************************)
(* AllowRequest(serverURL).                                                 *)
(***************************************************************************)
(* A variant that denies the request when no breaker is configured. *)
allowRequestNotConfigured_denies ==
    [permitted |-> FALSE, observed |-> notConfigured]

(* return true, notConfigured *)
allowRequestNotConfigured ==
    [permitted |-> TRUE, observed |-> notConfigured]

AllowRequestReturn(t, permitted, observed) ==
    /\ ManagerReturn(t, [NoMev EXCEPT !.op = "allow",
                                      !.found = frame[t].ptr # NilRef,
                                      !.known = frame[t].known,
                                      !.torn = frame[t].torn,
                                      !.permitted = permitted,
                                      !.observed = observed,
                                      !.read = frame[t].snap.state])
    /\ UNCHANGED <<breakers, allocs, inits, now>>
    /\ UNCHANGED bvars

(* if cb == nil *)
AllowRequestNil(t) ==
    /\ mpc[t] = "got_cb"
    /\ frame[t].op = "allow"
    /\ frame[t].ptr = NilRef
    /\ AllowRequestReturn(t, allowRequestNotConfigured.permitted,
                             allowRequestNotConfigured.observed)
    /\ heap' = Collect(heap, breakers, frame')

(* cb.allow(): cb.mu.RLock(); the four copies; cb.mu.RUnlock() *)
AllowRequestRead(t) ==
    /\ mpc[t] = "got_cb"
    /\ frame[t].op = "allow"
    /\ frame[t].ptr # NilRef
    /\ frame' = [frame EXCEPT ![t].snap =
                   [state |-> heap[frame[t].ptr].state,
                    lastFailureTime |-> heap[frame[t].ptr].lastFailureTime,
                    recoveryTimeout |-> heap[frame[t].ptr].recoveryTimeout,
                    halfOpenPrc |-> heap[frame[t].ptr].halfOpenPrc]]
    /\ mpc' = [mpc EXCEPT ![t] = "allow_switch"]
    /\ mev' = NoMev
    /\ UNCHANGED <<breakers, heap, allocs, inits, now>>
    /\ UNCHANGED bvars

(* cb.allow(): switch state.  Past the timeout test the copies of           *)
(* lastFailureTime and recoveryTimeout are not read again and are dropped.  *)
AllowRequestSwitch(t) ==
    /\ mpc[t] = "allow_switch"
    /\ LET sn == frame[t].snap
       IN \/ /\ sn.state = stateClosed
             /\ AllowRequestReturn(t, TRUE, sn.state)
             /\ heap' = Collect(heap, breakers, frame')
          \/ /\ sn.state = stateHalfOpen
             /\ \E permitted \in {allowSample(draw, sn.halfOpenPrc) : draw \in IntN(100)} :
                   AllowRequestReturn(t, permitted, sn.state)
             /\ heap' = Collect(heap, breakers, frame')
          \/ /\ sn.state = stateOpen
             /\ allowTimeoutElapsed(sn.lastFailureTime, sn.recoveryTimeout, now)
             /\ mpc' = [mpc EXCEPT ![t] = "allow_lock"]
             /\ frame' = [frame EXCEPT ![t].snap =
                            [NoSnap EXCEPT !.state = sn.state,
                                           !.halfOpenPrc = sn.halfOpenPrc]]
             /\ mev' = NoMev
             /\ UNCHANGED <<breakers, heap, allocs, inits, now>>
             /\ UNCHANGED bvars
          \/ /\ sn.state = stateOpen
             /\ ~ allowTimeoutElapsed(sn.lastFailureTime, sn.recoveryTimeout, now)
             /\ AllowRequestReturn(t, FALSE, sn.state)
             /\ heap' = Collect(heap, breakers, frame')

(* cb.allow(): cb.mu.Lock(); the re-validation and the write; the return *)
AllowRequestLocked(t) ==
    /\ mpc[t] = "allow_lock"
    /\ CanLockBreaker(frame[t].ptr)
    /\ \E permitted \in {allowSample(draw, frame[t].snap.halfOpenPrc) : draw \in IntN(100)} :
          AllowRequestReturn(t, permitted, stateHalfOpen)
    /\ heap' = Collect([heap EXCEPT ![frame[t].ptr] = allowLockedWrite(@, now)],
                       breakers, frame')

(* The steps of AllowRequest that need no elapsed timeout. *)
AllowRequestUnlocked(t) ==
    \/ Resolve(t, "allow")
    \/ AllowRequestNil(t)
    \/ AllowRequestRead(t)
    \/ AllowRequestSwitch(t)

AllowRequest(t) ==
    \/ AllowRequestUnlocked(t)
    \/ AllowRequestLocked(t)

(***************************************************************************)
(* ReportSuccess(serverURL) and ReportFailure(serverURL).                   *)
(***************************************************************************)
ReportReturn(t, h) ==
    /\ ManagerReturn(t, [NoMev EXCEPT !.op = frame[t].op,
                                      !.found = frame[t].ptr # NilRef,
                                      !.known = frame[t].known,
                                      !.torn = frame[t].torn])
    /\ heap' = Collect(h, breakers, frame')
    /\ UNCHANGED <<breakers, allocs, inits, now>>
    /\ UNCHANGED bvars

(* if cb != nil { cb.success() } *)
ReportSuccessCall(t) ==
    /\ mpc[t] = "got_cb"
    /\ frame[t].op = "success"
    /\ IF frame[t].ptr # NilRef
       THEN /\ CanLockBreaker(frame[t].ptr)
            /\ ReportReturn(t, [heap EXCEPT ![frame[t].ptr] = successLocked(@)])
       ELSE ReportReturn(t, heap)

ReportSuccess(t) ==
    \/ Resolve(t, "success")
    \/ ReportSuccessCall(t)

(* if cb != nil { cb.failure() } *)
ReportFailureCall(t) ==
    /\ mpc[t] = "got_cb"
    /\ frame[t].op = "failure"
    /\ IF frame[t].ptr # NilRef
       THEN /\ CanLockBreaker(frame[t].ptr)
            /\ ReportReturn(t, [heap EXCEPT ![frame[t].ptr] = failureLocked(@, now)])
       ELSE ReportReturn(t, heap)

ReportFailure(t) ==
    \/ Resolve(t, "failure")
    \/ ReportFailureCall(t)

(***************************************************************************)
(* GetCircuitBreakerState(serverURL), with curState() and State.String().   *)
(***************************************************************************)
(* A variant of String() with the texts of Open and HalfOpen exchanged. *)
String_exchanged(s) ==
    CASE s = stateClosed -> "closed"
      [] s = stateOpen -> "half-open"
      [] s = stateHalfOpen -> "open"
      [] s = notConfigured -> "not configured"
      [] OTHER -> "unknown"

String(s) ==
    CASE s = stateClosed -> "closed"
      [] s = stateOpen -> "open"
      [] s = stateHalfOpen -> "half-open"
      [] s = notConfigured -> "not configured"
      [] OTHER -> "unknown"

curState(c) == c.state

(* if cb == nil { return "disabled" }; return cb.curState().String() *)
GetCircuitBreakerStateCall(t) ==
    /\ mpc[t] = "got_cb"
    /\ frame[t].op = "state"
    /\ ManagerReturn(t, [NoMev EXCEPT
            !.op = "state",
            !.found = frame[t].ptr # NilRef,
            !.known = frame[t].known, !.torn = frame[t].torn,
            !.read = IF frame[t].ptr = NilRef THEN stateClosed
                     ELSE heap[frame[t].ptr].state,
            !.due = frame[t].ptr # NilRef /\ Due(heap[frame[t].ptr], now),
            !.text = IF frame[t].ptr = NilRef THEN "disabled"
                     ELSE String(curState(heap[frame[t].ptr]))])
    /\ heap' = Collect(heap, breakers, frame')
    /\ UNCHANGED <<breakers, allocs, inits, now>>
    /\ UNCHANGED bvars

GetCircuitBreakerState(t) ==
    \/ Resolve(t, "state")
    \/ GetCircuitBreakerStateCall(t)

(***************************************************************************)
(* GetCircuitBreakerStats(), with stats().                                  *)
(***************************************************************************)
(* A variant of stats() that reports failureCount under both counters. *)
stats_repeatsFailureCount(c) ==
    [state |-> String(c.state),
     failure_count |-> c.failureCount,
     success_count |-> c.failureCount,
     last_failure_time |-> c.lastFailureTime,
     name |-> c.name,
     transaction |-> c.transaction]

(* The map stats() returns. *)
stats(c) ==
    [state |-> String(c.state),
     failure_count |-> c.failureCount,
     success_count |-> c.successCount,
     last_failure_time |-> c.lastFailureTime,
     name |-> c.name,
     transaction |-> c.transaction]

(* m.mu.RLock(); stats := make(map[string]any) *)
StatsLock(t) ==
    /\ mpc[t] = "idle"
    /\ CanRLock
    /\ frame' = [frame EXCEPT ![t] =
                   [NoFrame EXCEPT !.op = "stats", !.todo = DOMAIN breakers,
                                   !.torn = Torn]]
    /\ mpc' = [mpc EXCEPT ![t] = "stats_loop"]
    /\ mev' = NoMev
    /\ UNCHANGED <<breakers, heap, allocs, inits, now>>
    /\ UNCHANGED bvars

(* for srv, cb := range m.breakers, in any order; cb.stats(): cb.mu.RLock() *)
StatsNext(t) ==
    /\ mpc[t] = "stats_loop"
    /\ \E srv \in frame[t].todo :
          frame' = [frame EXCEPT ![t].name = srv, ![t].ptr = breakers[srv]]
    /\ mpc' = [mpc EXCEPT ![t] = "stats_cb"]
    /\ mev' = NoMev
    /\ UNCHANGED <<breakers, heap, allocs, inits, now>>
    /\ UNCHANGED bvars

(* cb.stats(): the map is built; the deferred cb.mu.RUnlock();              *)
(* stats[srv] = that map                                                    *)
StatsRead(t) ==
    /\ mpc[t] = "stats_cb"
    /\ frame' = [frame EXCEPT
                   ![t].stats = MapPut(@, frame[t].name, stats(heap[frame[t].ptr])),
                   ![t].todo = @ \ {frame[t].name},
                   ![t].ptr = NilRef]
    /\ mpc' = [mpc EXCEPT ![t] = "stats_loop"]
    /\ mev' = NoMev
    /\ UNCHANGED <<breakers, heap, allocs, inits, now>>
    /\ UNCHANGED bvars

(* return stats; the deferred m.mu.RUnlock() *)
StatsReturn(t) ==
    /\ mpc[t] = "stats_loop"
    /\ frame[t].todo = {}
    /\ ManagerReturn(t, [NoMev EXCEPT !.op = "stats",
                                      !.stats = frame[t].stats,
                                      !.torn = frame[t].torn])
    /\ UNCHANGED <<breakers, heap, allocs, inits, now>>
    /\ UNCHANGED bvars

GetCircuitBreakerStats(t) ==
    \/ StatsLock(t)
    \/ StatsNext(t)
    \/ StatsRead(t)
    \/ StatsReturn(t)

(***************************************************************************)
(* The manager's specifications.  The lone breaker of Spec stays as         *)
(* constructed in both.                                                     *)
(*   ManagerSpec       every goroutine of Threads calls the methods of one  *)
(*                     manager; the calls are faster than the clock, which  *)
(*                     stands still, so no breaker leaves Open and no       *)
(*                     allow() reaches its exclusive lock.                  *)
(*   TimedManagerSpec  time passes between and inside the calls of          *)
(*                     NumCallers goroutines, so the breakers go through    *)
(*                     all their states.                                    *)
(***************************************************************************)
NumCallers == 1

Callers == 1..NumCallers

(* A variant of the clock: a timer moves every Open breaker whose timeout    *)
(* has elapsed to HalfOpen.                                                 *)
ManagerTick_expires ==
    /\ now < MaxTime
    /\ now' = now + 1
    /\ heap' = [r \in DOMAIN heap |->
                  IF Due(heap[r], now + 1)
                  THEN [heap[r] EXCEPT !.state = stateHalfOpen]
                  ELSE heap[r]]
    /\ mev' = NoMev
    /\ UNCHANGED <<breakers, allocs, mpc, frame, inits>>
    /\ UNCHANGED bvars

ManagerTick ==
    /\ now < MaxTime
    /\ now' = now + 1
    /\ mev' = NoMev
    /\ UNCHANGED <<breakers, heap, allocs, mpc, frame, inits>>
    /\ UNCHANGED bvars

ManagerInit ==
    /\ NewCBManager
    /\ cb = new(ServerName, ManagerConf).cb
    /\ made = Made(ServerName, ManagerConf)
    /\ now = 0
    /\ pc = [t \in Threads |-> "idle"]
    /\ snap = [t \in Threads |-> NoSnap]
    /\ call = [t \in Threads |-> NoCall]
    /\ ev = NoEv
    /\ failRun = 0
    /\ succRun = 0
    /\ hoWrites = 0
    /\ streak = 0

ManagerNext ==
    \/ \E t \in Threads : InitCircuitBreakers(t)
    \/ \E t \in Threads : GetCircuitBreaker(t)
    \/ \E t \in Threads : AllowRequestUnlocked(t)
    \/ \E t \in Threads : ReportSuccess(t)
    \/ \E t \in Threads : ReportFailure(t)
    \/ \E t \in Threads : GetCircuitBreakerStats(t)

ManagerSpec == ManagerInit /\ [][ManagerNext]_vars

TimedManagerNext ==
    \/ \E t \in Callers : InitCircuitBreakers(t)
    \/ \E t \in Callers : GetCircuitBreaker(t)
    \/ \E t \in Callers : AllowRequest(t)
    \/ \E t \in Callers : ReportSuccess(t)
    \/ \E t \in Callers : ReportFailure(t)
    \/ \E t \in Callers : GetCircuitBreakerState(t)
    \/ \E t \in Callers : GetCircuitBreakerStats(t)
    \/ ManagerTick

TimedManagerSpec == ManagerInit /\ [][TimedManagerNext]_vars


(***************************************************************************)
(* Properties.                                                              *)
(***************************************************************************)

Allowed == ev.op = "allow"

Succeeded == ev.op = "success"

Failed == ev.op = "failure"

(* C1: no allow() call returns permitted = true when, at the moment the     *)
(* call last holds the breaker's lock, the breaker is Open and less than    *)
(* recoveryTimeout has elapsed since lastFailureTime.                       *)
C1_OpenDeniesUntilTimeout ==
    (Allowed /\ ev.permitted) => ~ (ev.heldState = stateOpen /\ ev.heldEarly)

(* C2: failure() on a Closed breaker adds exactly 1 to failureCount; the    *)
(* breaker becomes Open exactly when the new count is >= failureThreshold,  *)
(* then with lastFailureTime = now and transaction + 1; otherwise it stays  *)
(* Closed with lastFailureTime and transaction unchanged.  failureThreshold *)
(* failure() calls in a row on a fresh breaker leave it Open, fewer leave   *)
(* it Closed.                                                               *)
C2_FailureWhileClosed ==
    /\ (Failed /\ ev.pre.state = stateClosed) =>
          /\ cb.failureCount = ev.pre.failureCount + 1
          /\ (cb.state = stateOpen) <=> (cb.failureCount >= cb.failureThreshold)
          /\ cb.state = stateOpen =>
                cb = [ev.pre EXCEPT !.state = stateOpen,
                                    !.failureCount = @ + 1,
                                    !.lastFailureTime = ev.clock,
                                    !.transaction = @ + 1]
          /\ cb.state # stateOpen =>
                cb = [ev.pre EXCEPT !.failureCount = @ + 1]
    /\ failRun = cb.failureThreshold => cb.state = stateOpen
    /\ (failRun >= 0 /\ failRun < cb.failureThreshold) =>
          (cb.state = stateClosed /\ cb.failureCount = failRun)

C2_Witness ==
    /\ Failed
    /\ ev.pre.state = stateClosed
    /\ ev.pre.failureCount = 1
    /\ cb.state = stateOpen
    /\ failRun = cb.failureThreshold

(* C3: when the breaker is Open and at least recoveryTimeout has elapsed,   *)
(* the next allow() call, with no other operation in between, leaves the    *)
(* breaker HalfOpen and reports HalfOpen, permitted or not.                 *)
C3_NextAllowObservesHalfOpen ==
    (Allowed /\ ev.next) =>
       (cb.state = stateHalfOpen /\ ev.observed = stateHalfOpen)

C3_Witness ==
    Allowed /\ ev.next /\ ~ ev.permitted /\ ev.pre.state = stateOpen

C5_ObservedIsStoredState ==
    Allowed => ev.observed = ev.heldState

(* C6: a single failure() on a HalfOpen breaker moves it to Open, sets      *)
(* successCount to 0 and lastFailureTime to now, and leaves failureCount    *)
(* and transaction unchanged, whatever the counters and thresholds.         *)
C6_FailureWhileHalfOpen ==
    (Failed /\ ev.pre.state = stateHalfOpen) =>
       cb = [ev.pre EXCEPT !.state = stateOpen,
                           !.successCount = 0,
                           !.lastFailureTime = ev.clock]

C6_Witness ==
    /\ Failed
    /\ ev.pre.state = stateHalfOpen
    /\ ev.pre.successCount > 0
    /\ ev.clock > ev.pre.lastFailureTime

C8_SuccessWhileClosed ==
    /\ (Succeeded /\ ev.pre.state = stateClosed) =>
          cb = [ev.pre EXCEPT !.failureCount = IF @ - 1 > 0 THEN @ - 1 ELSE 0]
    /\ cb.failureCount >= 0

C8_Witness ==
    Succeeded /\ ev.pre.state = stateClosed /\ ev.pre.failureCount = 0

(* C9: success() and failure() on an Open breaker change no field: a        *)
(* failure reported while Open does not restart the recovery timer and a    *)
(* success reported while Open does not decay failureCount.                 *)
C9_ReportsWhileOpenAreNoOps ==
    ((Succeeded \/ Failed) /\ ev.pre.state = stateOpen) => cb = ev.pre

C9_Witness ==
    /\ Failed
    /\ ev.pre.state = stateOpen
    /\ ev.clock > ev.pre.lastFailureTime
    /\ ev.pre.failureCount > 0

(* The steps of allow() are the steps that move a goroutine: success() and  *)
(* failure() are one step each and leave pc alone, as does Tick.            *)
AllowStep == pc' # pc

C10_AllowStepFrame ==
    AllowStep =>
       /\ cb'.failureCount = cb.failureCount
       /\ cb'.successCount = cb.successCount
       /\ cb'.lastFailureTime = cb.lastFailureTime
       /\ cb'.transaction = cb.transaction
       /\ cb' = cb \/ (cb.state = stateOpen /\ cb' = [cb EXCEPT !.state = stateHalfOpen])
       /\ cb.state \in {stateClosed, stateHalfOpen} => cb' = cb

(* C10: allow() on a Closed breaker returns permitted = true with observed  *)
(* state Closed; allow() on a Closed or HalfOpen breaker changes no field;  *)
(* in every state allow() leaves failureCount, successCount,                *)
(* lastFailureTime and transaction unchanged, its only write being state    *)
(* Open -> HalfOpen.                                                        *)
C10_AllowFrame ==
    /\ []((Allowed /\ ev.read = stateClosed) =>
             (ev.permitted /\ ev.observed = stateClosed))
    /\ [][C10_AllowStepFrame]_vars

C10_Witness ==
    Allowed /\ ev.read = stateClosed /\ ev.permitted /\ cb.failureCount > 0

(* C11: in every step the stored state changes only along Closed->Open, by  *)
(* failure(); Open->HalfOpen, by allow(); HalfOpen->Closed, by success();   *)
(* HalfOpen->Open, by failure().  There is no Closed->HalfOpen and no       *)
(* Open->Closed step, and no other operation causes an edge.                *)
C11_StepEdges ==
    cb'.state # cb.state =>
       \/ cb.state = stateClosed /\ cb'.state = stateOpen /\ ev'.op = "failure"
       \/ cb.state = stateOpen /\ cb'.state = stateHalfOpen /\ ev'.op = "allow"
       \/ cb.state = stateHalfOpen /\ cb'.state = stateClosed /\ ev'.op = "success"
       \/ cb.state = stateHalfOpen /\ cb'.state = stateOpen /\ ev'.op = "failure"

C11_OnlyDiagramEdges == [][C11_StepEdges]_vars

C11_Witness ==
    /\ Failed
    /\ ev.pre.state = stateClosed
    /\ cb.state = stateOpen
    /\ cb.transaction = 3

(* C12: whatever the interleaving of allow(), success() and failure(),      *)
(* failureCount >= 0, successCount >= 0 and the stored state is Closed,     *)
(* Open or HalfOpen, never the notConfigured sentinel.                      *)
C12_CountersAndStateInRange ==
    /\ cb.failureCount >= 0
    /\ cb.successCount >= 0
    /\ cb.state \in {stateClosed, stateOpen, stateHalfOpen}
    /\ cb.state # notConfigured

C12_Witness ==
    /\ \E t \in Threads : pc[t] = "allow_lock"
    /\ cb.state = stateHalfOpen
    /\ cb.successCount > 0

(***************************************************************************)
(* Properties of the manager.                                               *)
(***************************************************************************)

Returned(op) == mev.op = op

NonEmptyNames(servers) == {servers[i] : i \in 1..Len(servers)} \ {""}

EmptyNameCount(servers) == Cardinality({i \in 1..Len(servers) : servers[i] = ""})

(* C13: when InitCircuitBreakers(names, cfg) returns, the registered names  *)
(* are exactly the non-empty names of names: names registered by an earlier *)
(* call and absent from this one are gone, and after                        *)
(* InitCircuitBreakers([], cfg) the registry, and so the mapping            *)
(* GetCircuitBreakerStats() returns, is empty.                              *)
C13_InitReplacesRegistry ==
    Returned("init") => Registered = NonEmptyNames(mev.servers)

(* C14: InitCircuitBreakers(names, cfg) returns one error per empty name of *)
(* names and none for the others; every non-empty name of names, before or  *)
(* after an empty one, is registered when it returns; nothing is ever       *)
(* registered under the empty name.                                         *)
C14_InitCollectsErrors ==
    /\ Returned("init") =>
          /\ Len(mev.cbInitErr) = EmptyNameCount(mev.servers)
          /\ NonEmptyNames(mev.servers) \subseteq Registered
    /\ "" \notin Registered

C14_Witness ==
    /\ Returned("init")
    /\ mev.servers = <<"a", "", "b">>
    /\ Len(mev.cbInitErr) = 1
    /\ {"a", "b"} \subseteq Registered

(* C15: a call that reads the registry while another goroutine runs         *)
(* InitCircuitBreakers finds the registry as it was before that call or as  *)
(* it is after it, never with only some of its names registered.            *)
C15_NoPartialRegistry ==
    /\ \A t \in Threads : ~ frame[t].torn
    /\ ~ mev.torn
    /\ RegistryReaders # {} => ~ Torn

C15_Witness ==
    \E t, u \in Threads :
       /\ mpc[t] = "init_loop"
       /\ breakers # frame[t].before
       /\ breakers # InitRest(Manager, frame[t].servers, frame[t].i, ManagerConf)
       /\ mpc[u] = "got_cb"
       /\ frame[u].name = "a"
       /\ ~ frame[u].known

AllowRequestOf(read, permitted, observed) ==
    \/ read = stateClosed /\ permitted /\ observed = stateClosed
    \/ read = stateHalfOpen /\ observed = stateHalfOpen
    \/ read = stateOpen /\ ~ permitted /\ observed = stateOpen
    \/ read = stateOpen /\ observed = stateHalfOpen

(* A step of a call, of one of the operations ops, for a name that is not   *)
(* registered: the lookup, or the return.                                   *)
UnregisteredStep(ops) ==
    \/ \E t \in Threads : /\ mpc[t] = "idle"
                          /\ mpc'[t] = "got_cb"
                          /\ frame'[t].op \in ops
                          /\ ~ frame'[t].known
    \/ mev'.op \in ops /\ ~ mev'.known

ManagerUntouched ==
    /\ breakers' = breakers
    /\ heap' = heap
    /\ allocs' = allocs

(* C16: AllowRequest(name) for a name that is not registered returns        *)
(* (true, notConfigured), registers nothing and changes no breaker; for a   *)
(* registered name it returns what the breaker's allow() returns on the     *)
(* state it reads, and then never notConfigured.                            *)
C16_AllowRequestFailsOpen ==
    /\ [](Returned("allow") =>
            /\ mev.found <=> mev.known
            /\ ~ mev.known => (mev.permitted /\ mev.observed = notConfigured)
            /\ mev.known =>
                  /\ AllowRequestOf(mev.read, mev.permitted, mev.observed)
                  /\ mev.observed # notConfigured)
    /\ [][UnregisteredStep({"allow"}) => ManagerUntouched]_vars

C16_Witness ==
    /\ Returned("allow")
    /\ ~ mev.known
    /\ mev.permitted
    /\ "a" \in Registered
    /\ heap[breakers["a"]].state = stateHalfOpen

(* C17: ReportSuccess(name) and ReportFailure(name) for a name that is not  *)
(* registered return, register nothing and leave every breaker as it was.   *)
C17_ReportUnregisteredIsNoOp ==
    /\ []((Returned("success") \/ Returned("failure")) =>
             (mev.found <=> mev.known))
    /\ [][UnregisteredStep({"success", "failure"}) => ManagerUntouched]_vars

C17_Witness ==
    /\ Returned("failure")
    /\ ~ mev.known
    /\ "a" \in Registered
    /\ heap[breakers["a"]].failureCount > 0

(* C18: no goroutine holds a breaker's lock while it holds the registry's   *)
(* lock.                                                                    *)
C18_LocksNeverNested ==
    \A t \in Threads : ~ (HoldsRegistryLock(t) /\ HoldsBreakerLock(t))

(* C19: GetCircuitBreakerState(name) returns "disabled" for a name that is  *)
(* not registered and "closed", "open" or "half-open", as the breaker's     *)
(* state is, for a registered one; never "unknown" or "not configured".     *)
C19_StateText ==
    Returned("state") =>
       /\ mev.found <=> mev.known
       /\ ~ mev.known => mev.text = "disabled"
       /\ mev.known =>
             \/ mev.read = stateClosed /\ mev.text = "closed"
             \/ mev.read = stateOpen /\ mev.text = "open"
             \/ mev.read = stateHalfOpen /\ mev.text = "half-open"
       /\ mev.text \notin {"unknown", "not configured"}

C19_Witness ==
    Returned("state") /\ mev.known /\ mev.text = "half-open"

(* The step in which stats() builds a breaker's snapshot. *)
C20_SnapshotStep ==
    \A t \in Threads :
       (mpc[t] = "stats_cb" /\ mpc'[t] = "stats_loop") =>
          LET c == heap[frame[t].ptr]
          IN /\ frame'[t].stats[frame[t].name] =
                   [state |-> IF c.state = stateClosed THEN "closed"
                              ELSE IF c.state = stateOpen THEN "open"
                              ELSE "half-open",
                    failure_count |-> c.failureCount,
                    success_count |-> c.successCount,
                    last_failure_time |-> c.lastFailureTime,
                    name |-> c.name,
                    transaction |-> c.transaction]
             /\ heap' = heap

(* While stats() holds a breaker's lock the breaker does not change. *)
C20_LockedStep ==
    \A t \in Threads :
       (mpc[t] = "stats_cb" /\ frame[t].ptr \in DOMAIN heap') =>
          heap'[frame[t].ptr] = heap[frame[t].ptr]

(* C20: the mapping GetCircuitBreakerStats() returns has the registered     *)
(* names as its keys; the snapshot under a key carries the key as its name; *)
(* each snapshot holds state, failureCount, successCount, lastFailureTime   *)
(* and transaction of its breaker as they were at the one moment stats()    *)
(* held the breaker's lock.                                                 *)
C20_StatsSnapshot ==
    /\ [](Returned("stats") =>
            /\ DOMAIN mev.stats = Registered
            /\ \A k \in DOMAIN mev.stats : mev.stats[k].name = k)
    /\ [][C20_SnapshotStep /\ C20_LockedStep]_vars

C20_Witness ==
    /\ Returned("stats")
    /\ DOMAIN mev.stats = {"a", "b"}
    /\ mev.stats["a"].state = "open"
    /\ mev.stats["a"].failure_count = 1
    /\ mev.stats["b"].state = "closed"

(***************************************************************************)
(* The transition count.                                                    *)
(***************************************************************************)
Trips(c, d) == c.state = stateClosed /\ d.state = stateOpen

Recovers(c, d) == c.state = stateHalfOpen /\ d.state = stateClosed

C21_TransactionStep ==
    /\ cb'.transaction =
          cb.transaction + (IF Trips(cb, cb') \/ Recovers(cb, cb') THEN 1 ELSE 0)
    /\ Recovers(cb, cb') => cb'.failureCount = 0

C22_ConfigNormalized ==
    Built =>
      LET config == made.config
      IN /\ cb.failureThreshold =
               (IF config.FailureThreshold <= 0 THEN 5 ELSE config.FailureThreshold)
         /\ cb.recoveryTimeout =
               (IF config.RecoveryTimeout <= 0 THEN 30 ELSE config.RecoveryTimeout)
         /\ cb.successThreshold =
               (IF config.SuccessThreshold <= 0 THEN 3 ELSE config.SuccessThreshold)
         /\ cb.halfOpenPrc =
               (IF config.HalfOpenPrc <= 0 THEN 20
                ELSE IF config.HalfOpenPrc > 100 THEN 100
                ELSE config.HalfOpenPrc)
         /\ cb.failureThreshold >= 1
         /\ cb.successThreshold >= 1
         /\ cb.recoveryTimeout > 0
         /\ cb.halfOpenPrc \in 1..100

C22_Witness ==
    /\ ev.op = "new"
    /\ Built
    /\ made.config.FailureThreshold = -1
    /\ made.config.RecoveryTimeout = 1
    /\ made.config.SuccessThreshold = 0
    /\ made.config.HalfOpenPrc = 101
    /\ cb.failureThreshold = 5
    /\ cb.recoveryTimeout = 1
    /\ cb.successThreshold = 3
    /\ cb.halfOpenPrc = 100

(* C23: new() with an empty name returns an error and no breaker, whatever  *)
(* the config; with a non-empty name it returns no error, whatever the      *)
(* config, and a breaker that is Closed with failureCount, successCount and *)
(* transaction 0.                                                           *)
C23_EmptyNameIsTheOnlyError ==
    made.done =>
      /\ made.name = "" => (made.err /\ cb = Nil)
      /\ made.name # "" =>
            /\ ~ made.err
            /\ cb # Nil
            /\ ev.op = "new" =>
                  /\ cb.state = stateClosed
                  /\ cb.failureCount = 0
                  /\ cb.successCount = 0
                  /\ cb.transaction = 0

C23_Witness ==
    /\ ev.op = "new"
    /\ made.name = ""
    /\ made.err
    /\ cb = Nil
    /\ made.config.FailureThreshold = 2
    /\ made.config.HalfOpenPrc = 50

(***************************************************************************)
(* Sampling of probes.                                                      *)
(***************************************************************************)
Permitting(halfOpenPrc) == {draw \in IntN(100) : allowSample(draw, halfOpenPrc)}

(* The returned allow() call reached the sampling: it read HalfOpen, or it  *)
(* read Open, found the timeout elapsed and took the exclusive lock.        *)
Probed == Allowed /\ (ev.read = stateHalfOpen \/ ev.locked)

(* C25: a probing allow() draws from 0..99 and permits exactly when the     *)
(* draw is below halfOpenPrc, so halfOpenPrc of the 100 draws permit; with  *)
(* halfOpenPrc = 100 every probe is permitted; no breaker denies every      *)
(* draw.                                                                    *)
C25_ProbeSampling ==
    Built =>
      /\ IntN(100) = 0..99
      /\ \A draw \in IntN(100) :
            allowSample(draw, cb.halfOpenPrc) <=> draw < cb.halfOpenPrc
      /\ Cardinality(Permitting(cb.halfOpenPrc)) = cb.halfOpenPrc
      /\ Permitting(cb.halfOpenPrc) # {}
      /\ cb.halfOpenPrc = 100 => Permitting(cb.halfOpenPrc) = IntN(100)
      /\ (Probed /\ cb.halfOpenPrc = 100) => ev.permitted

C25_Witness ==
    /\ Built
    /\ Probed
    /\ ev.locked
    /\ ev.permitted
    /\ ev.pre.state = stateOpen
    /\ cb.state = stateHalfOpen
    /\ cb.halfOpenPrc = 1

(***************************************************************************)
(* What the failure threshold counts.                                       *)
(***************************************************************************)
C26_ConsecutiveStep ==
    (Built /\ Trips(cb, cb')) => streak + 1 >= cb.failureThreshold

(* C26 as stated: a Closed breaker trips only when the failureThreshold     *)
(* most recent reports made on it while Closed were all failures.           *)
C26_TripsOnConsecutiveFailures == [][C26_ConsecutiveStep]_vars

C26_NetStep ==
    (cb.state = stateClosed /\ cb'.state = stateClosed
       /\ cb'.failureCount < cb.failureCount) =>
          cb'.failureCount = cb.failureCount - 1

(* C26 amended: failureCount is failures minus successes, floored at 0: a   *)
(* success() while Closed cancels one counted failure and no more, every    *)
(* failure of the current run of failures is counted, and the breaker is    *)
(* Closed only while the count is below failureThreshold.                   *)
C26_NetFailures ==
    /\ [](Built /\ cb.state = stateClosed =>
            /\ streak <= cb.failureCount
            /\ cb.failureCount < cb.failureThreshold)
    /\ [][Built => C26_NetStep]_vars

C26_Witness ==
    /\ Built
    /\ Failed
    /\ cb.state = stateClosed
    /\ cb.failureThreshold = 5
    /\ cb.failureCount = 4
    /\ streak = 3

(***************************************************************************)
(* Laziness of the timeout.                                                 *)
(***************************************************************************)
(* Goroutine t takes the step. *)
Acts(t) == mpc'[t] # mpc[t] \/ frame'[t] # frame[t]

(* The step belongs to a GetCircuitBreakerState or GetCircuitBreakerStats   *)
(* call, curState() and stats() included.                                   *)
ReadOnlyStep ==
    \E t \in Threads :
       /\ Acts(t)
       /\ \/ frame[t].op \in {"state", "stats"}
          \/ frame'[t].op \in {"state", "stats"}

BreakersUntouched ==
    /\ breakers' = breakers
    /\ \A r \in DOMAIN heap \cap DOMAIN heap' : heap'[r] = heap[r]

C24_LazyStep ==
    /\ now' # now => (heap' = heap /\ breakers' = breakers)
    /\ ReadOnlyStep => BreakersUntouched

(* C24: a step in which time passes changes no breaker; no step of          *)
(* GetCircuitBreakerState or GetCircuitBreakerStats, curState() and stats() *)
(* included, writes a breaker; a GetCircuitBreakerState that reads an Open  *)
(* breaker whose timeout has elapsed returns "open".                        *)
C24_TimeoutIsLazy ==
    /\ []((Returned("state") /\ mev.due) =>
            (mev.read = stateOpen /\ mev.text = "open"))
    /\ [][C24_LazyStep]_vars

C24_Witness ==
    /\ Returned("state")
    /\ mev.due
    /\ mev.text = "open"
    /\ "a" \in Registered
    /\ Due(heap[breakers["a"]], now)

(***************************************************************************)
(* The recovery timer.                                                      *)
(***************************************************************************)
C27_TimerStep ==
    /\ cb'.lastFailureTime # cb.lastFailureTime => EntersOpen(cb, cb')
    /\ EntersOpen(cb, cb') => cb'.lastFailureTime = now
    /\ cb'.lastFailureTime >= cb.lastFailureTime

(* C27: lastFailureTime is written only by a step that takes the breaker    *)
(* into Open, which sets it to the time of that step, and it never          *)
(* decreases; an allow() call that, when it last holds the lock, finds the  *)
(* breaker Open with less than recoveryTimeout elapsed since that entry is  *)
(* denied.                                                                  *)
C27_TimerRunsFromEntry ==
    /\ [][C27_TimerStep]_vars
    /\ []((Allowed /\ ev.heldState = stateOpen /\ ev.heldEarly) => ~ ev.permitted)

(***************************************************************************)
(* Re-initialisation.                                                       *)
(***************************************************************************)
(* C28: when InitCircuitBreakers(names, cfg) returns, every non-empty name  *)
(* of names is registered with a breaker as new(name, cfg) builds it:       *)
(* Closed, failureCount, successCount and transaction 0, cfg's normalized   *)
(* values; this holds for names that were registered before the call, in    *)
(* whatever state their breaker was.  An AllowRequest that finds a breaker  *)
(* Closed, as the new ones are, is permitted.                               *)
C28_InitBuildsFreshBreakers ==
    /\ Returned("init") =>
          \A n \in NonEmptyNames(mev.servers) :
             /\ n \in Registered
             /\ heap[breakers[n]] = new(n, ManagerConf).cb
             /\ heap[breakers[n]].state = stateClosed
             /\ heap[breakers[n]].failureCount = 0
             /\ heap[breakers[n]].successCount = 0
             /\ heap[breakers[n]].transaction = 0
    /\ (Returned("allow") /\ mev.found /\ mev.read = stateClosed) => mev.permitted

C28_Witness ==
    /\ Returned("init")
    /\ mev.servers = <<"a", "", "b">>
    /\ \E u \in Threads :
          /\ mpc[u] = "got_cb"
          /\ frame[u].name = "a"
          /\ frame[u].ptr # NilRef
          /\ frame[u].ptr # breakers["a"]
          /\ heap[frame[u].ptr].state = stateOpen

(***************************************************************************)
(* Freedom from deadlock.                                                   *)
(***************************************************************************)
(* The steps goroutine t can take in the manager's methods. *)
ManagerStep(t) ==
    \/ InitCircuitBreakers(t)
    \/ GetCircuitBreaker(t)
    \/ AllowRequest(t)
    \/ ReportSuccess(t)
    \/ ReportFailure(t)
    \/ GetCircuitBreakerState(t)
    \/ GetCircuitBreakerStats(t)

(* The goroutines that hold a lock t's next step may have to wait for: m.mu *)
(* at the beginning of a method, the breaker's mu inside one.               *)
WaitsFor(t) ==
    IF mpc[t] = "idle"
    THEN RegistryWriters \cup RegistryReaders
    ELSE BreakerReaders(frame[t].ptr)

EveryChoiceIsTaken ==
    /\ \A k \in 0..MaxThreshold :
          SF_vars(InWindow /\ failure(Tester)
                    /\ cb.state = stateClosed /\ cb.failureCount = k)
    /\ \A k \in 0..MaxThreshold :
          SF_vars(InWindow /\ success(Tester)
                    /\ cb.state = stateHalfOpen /\ cb.successCount = k)

C31_FailureCountByState ==
    Built =>
      /\ cb.state = stateClosed =>
            (0 <= cb.failureCount /\ cb.failureCount < cb.failureThreshold)
      /\ cb.state \in {stateOpen, stateHalfOpen} =>
            cb.failureCount = cb.failureThreshold

C31_Witness ==
    /\ Built
    /\ Allowed
    /\ ev.pre.state = stateOpen
    /\ cb.state = stateHalfOpen
    /\ made.config.FailureThreshold = 0
    /\ cb.failureThreshold = 5
    /\ cb.failureCount = 5

(* C32: 0 <= successCount < successThreshold in every state, and            *)
(* successCount = 0 whenever the breaker is Closed or Open.                 *)
C32_SuccessCountByState ==
    Built =>
      /\ 0 <= cb.successCount
      /\ cb.successCount < cb.successThreshold
      /\ cb.state \in {stateClosed, stateOpen} => cb.successCount = 0

C32_Witness ==
    /\ Built
    /\ Failed
    /\ ev.pre.state = stateHalfOpen
    /\ ev.pre.successCount = 2
    /\ cb.successThreshold = 3
    /\ cb.state = stateOpen
    /\ cb.successCount = 0

====
